---- MODULE Spec2Model ----
(***************************************************************************)
(* Model of rtsp-agents/rtsp-health-checker.py: the health-check loop of   *)
(* main(), download_cameras_and_do_health_check(), health_check() and the  *)
(* RtspBackendClient methods get_all_camera_ids, get_camera, health_check  *)
(* and update_camera.  External collaborators (the inventory service, the  *)
(* media endpoint, the file system) answer nondeterministically.           *)
(***************************************************************************)
EXTENDS Naturals, Sequences, FiniteSets

\* ---------------------------------------------------------------- bounds
\* Longest id list the inventory returns in one cycle.
MaxLen == 2

\* Camera identifiers known to the inventory (opaque values).
CameraIds == {"c1", "c2"}

\* ------------------------------------------------------------- constants
\* camera_statuses
camera_statuses == {"OPEN", "UNAUTHORIZED", "NOT_FOUND", "UNCONNECTED"}

\* A fetched record lacks at most one key ("none": the record is complete);
\* "city" stands for the location keys, which are read together.
MissingChoices == {"none", "rtspUrl", "cameraId", "status", "labels", "city"}

\* Python's None as a camera value.
NoCamera == [none |-> TRUE, pos |-> 0, cameraId |-> "", status |-> "", missing |-> "none"]

\* A decoded camera record, fetched for the id at position p of the listing.
Camera(p, id, st, m) == [none |-> FALSE, pos |-> p, cameraId |-> id, status |-> st, missing |-> m]

\* camera[key] raises KeyError exactly when the record lacks the key.
Has(camera, key) == camera.missing # key

\* What the inventory may answer to a GET.
HttpOutcomes == {"ok", "nonok", "undecodable", "transport"}

\* What cv2.VideoCapture(url).read() may do.
ProbeOutcomes == {"frame", "noframe", "raise"}

\* What cv2.imwrite may do: write the file, return False without writing, raise.
ImwriteOutcomes == {"ok", "false", "raise"}

\* What open(<id>.json, 'w') may do.
OpenOutcomes == {"ok", "fail"}

\* The statuses that complete records carry in this model (the loop only
\* prints a record's status).
RecordStatuses == {"NOT_FOUND"}

\* The records the inventory may return for the id at position p: complete
\* ones, and ones that lack one key.
Records(p, id) ==
    {Camera(p, id, st, "none") : st \in RecordStatuses}
        \cup {Camera(p, id, "UNAUTHORIZED", m) : m \in MissingChoices \ {"none"}}

\* All id lists of length at most MaxLen.
Listings == UNION {[1..n -> CameraIds] : n \in 0..MaxLen}

\* Python's None / a list as the value of camera_ids.
NoIds == [none |-> TRUE, ids |-> <<>>]

SomeIds(s) == [none |-> FALSE, ids |-> s]

\* The artifacts of one camera id in the output directory: whether <id>.jpg
\* exists, the status in <id>.json ("none": no file, "empty": a file without
\* a document) and the other key/value pairs of the document in <id>.json.
NoFiles == [img |-> FALSE, meta |-> "none", doc |-> {}]

\* The value a record holds under a key: opaque, and told apart by key and
\* by the camera the record describes.
FieldValue(camera, key) == <<key, camera.cameraId>>

VARIABLES
    health_check_opt,  \* options.health_check
    daemon,            \* options.daemon
    pc,                \* position of main()
    list_outcome,      \* how the last GET /cameras/ids ended
    camera_ids,        \* camera_ids of download_cameras_and_do_health_check
    i,                 \* number of ids fetched so far in this cycle
    fetched,           \* per listed position: "present" or "absent"
    cameras,           \* cameras of download_cameras_and_do_health_check
    j,                 \* index into cameras of health_check(cameras)
    files,             \* output directory: camera id -> its artifacts
    probe_outcome,     \* current camera: what VideoCapture.read did
    img_io,            \* current camera: what imwrite did
    meta_io,           \* current camera: what opening the metadata file did
    wrote_img,         \* current camera: image file written in this probe
    wrote_meta,        \* current camera: status written to the metadata file
    reported,          \* current camera: status sent in PUT /cameras/import
    is_updated,        \* current camera: client.health_check's result is truthy
    no_cameras_line,   \* line 230 was printed in this cycle
    last_print,        \* the last line download_cameras_and_do_health_check printed
    outcome_line,      \* current camera: the outcome line printed for it
    crash_at           \* the line whose exception ended the process (0: none)

vars == <<health_check_opt, daemon, pc, list_outcome, camera_ids, i, fetched,
          cameras, j, files, probe_outcome, img_io, meta_io,
          wrote_img, wrote_meta, reported, is_updated, outcome_line,
          no_cameras_line, last_print, crash_at>>

ctl == <<health_check_opt, daemon>>

inflight == <<probe_outcome, img_io, meta_io, wrote_img, wrote_meta, reported, is_updated,
              outcome_line>>

\* ------------------------------------------------------- pure operations

\* get_all_camera_ids: the list on a decodable success response, else None.
GetAllCameraIds(outcome, ids) ==
    IF outcome = "ok" THEN SomeIds(ids) ELSE NoIds

\* get_camera: the decoded record on a success response, else None.
GetCamera(outcome, rec) ==
    IF outcome = "ok" THEN rec ELSE NoCamera

\* Mutant of Truthy: the fetch loop appends whatever get_camera returned.
Truthy_Always(camera) == TRUE

\* `if camera:` of the fetch loop.
Truthy(camera) == ~camera.none

\* Mutant of AfterCycle: the daemon loop returns after its first cycle.
AfterCycle_ReturnsAlways == "done"

\* Where main() goes when download_cameras_and_do_health_check returns.
AfterCycle == IF daemon THEN "sleep" ELSE "done"

\* Mutant of UpdatedStatus: the else branch keeps the record's status.
UpdatedStatus_KeepsRecordStatus(camera, is_connected) ==
    IF is_connected THEN "OPEN" ELSE camera.status

\* Mutant of UpdatedStatus: both branches say UNCONNECTED.
UpdatedStatus_AlwaysUnconnected(camera, is_connected) == "UNCONNECTED"

\* updated_camera['status'] of the two branches of health_check.
UpdatedStatus(camera, is_connected) ==
    IF is_connected THEN "OPEN" ELSE "UNCONNECTED"

\* A list that grows at its head, which turns the listing order around.
AppendCamera_AtHead(cams, camera) == <<camera>> \o cams

\* cameras.append(camera) of the fetch loop.
AppendCamera(cams, camera) == Append(cams, camera)

\* A health check that reports right after the frame read.
AfterProbe_SkipsPersist(outcome) == IF outcome = "raise" THEN "log" ELSE "report"

\* Where health_check goes after the frame read: an exception of the capture
\* is caught by the except clause, anything else enters a branch.
AfterProbe(outcome) == IF outcome = "raise" THEN "log" ELSE "persist"

\* A document that leaves the city out and files the country name under
\* the country code.
CameraToSave_MixesFields(camera) ==
    {<<"countryCode", FieldValue(camera, "countryName")>>,
     <<"countryName", FieldValue(camera, "countryName")>>,
     <<"rtspUrl", FieldValue(camera, "rtspUrl")>>,
     <<"cameraId", FieldValue(camera, "cameraId")>>}

\* camera_to_save without its status: the keys copied from the record.
CameraToSave(camera) ==
    {<<key, FieldValue(camera, key)>> :
        key \in {"countryCode", "countryName", "city", "rtspUrl", "cameraId"}}

\* A branch that does not read the image file back: only an imwrite that
\* raises stops it.
ImageReadRaises_NoReadBack(f1, imgio) == imgio = "raise"

\* open(img_file_name, "rb") raises when imwrite raised before it or when
\* no image file exists.
ImageReadRaises(f1, imgio) == imgio = "raise" \/ ~f1.img

\* A health check that reports whatever became of the artifact writes.
AfterPersist_AlwaysReports(exc) == "report"

\* Where health_check goes after the branch's writes: an exception is caught
\* by the except clause, otherwise update_camera is called.
AfterPersist(exc) == IF exc THEN "log" ELSE "report"

\* The record carries the location keys that camera_to_save reads.
HasLocation(camera) ==
    Has(camera, "countryCode") /\ Has(camera, "countryName") /\ Has(camera, "city")

\* cv2.imwrite(<cameraId>.jpg, frame) on the directory entry f.
WriteImage(f, imgio) ==
    IF imgio = "ok" THEN [f EXCEPT !.img = TRUE] ELSE f

\* open(<cameraId>.json, 'w') and json.dump of camera_to_save: opening
\* truncates the file; a KeyError while building the dict leaves it empty.
WriteMetadata(f, camera, status, metaio) ==
    IF metaio # "ok" THEN f
    ELSE IF ~HasLocation(camera)
         THEN [f EXCEPT !.meta = "empty", !.doc = {}]
         ELSE [f EXCEPT !.meta = status, !.doc = CameraToSave(camera)]

\* The body of the try block of RtspBackendClient.health_check after the
\* frame was read, up to the call of update_camera.  Returns the directory
\* entry, whether an exception was caught, and what was written.
PersistResult(f, camera, is_connected, imgio, metaio) ==
    LET status == UpdatedStatus(camera, is_connected)
        f1 == IF is_connected THEN WriteImage(f, imgio) ELSE f
        f2 == WriteMetadata(f1, camera, status, metaio)
        raised_before_files ==
            \/ ~Has(camera, "cameraId")
            \/ ~is_connected /\ ~Has(camera, "labels")
        raised_at_image ==
            is_connected /\ ImageReadRaises(f1, imgio)
    IN  IF raised_before_files
            THEN [f |-> f, exc |-> TRUE, img |-> FALSE, meta |-> "none",
                  imgio |-> "none", metaio |-> "none", status |-> status]
        ELSE IF raised_at_image
            THEN [f |-> f1, exc |-> TRUE, img |-> FALSE, meta |-> "none",
                  imgio |-> imgio, metaio |-> "none", status |-> status]
        ELSE [f |-> f2, exc |-> (metaio # "ok" \/ ~HasLocation(camera)),
              img |-> is_connected /\ imgio = "ok",
              meta |-> IF metaio = "ok" THEN f2.meta ELSE "none",
              imgio |-> IF is_connected THEN imgio ELSE "none",
              metaio |-> metaio, status |-> status]

\* update_camera: truthy exactly on a decodable success response.
UpdateCameraOk(outcome) == outcome = "ok"

\* The outcome line health_check(cameras) prints for a camera.
OutcomeLine(updated) == IF updated THEN "completed" ELSE "failed"

\* ------------------------------------------------------------------ state

\* Nothing is known of a call of client.health_check.
ResetResult ==
    /\ probe_outcome' = "none"
    /\ img_io' = "none"
    /\ meta_io' = "none"
    /\ wrote_img' = FALSE
    /\ wrote_meta' = "none"
    /\ reported' = "none"
    /\ is_updated' = FALSE

ResetInflight ==
    /\ ResetResult
    /\ outcome_line' = "none"

Init ==
    /\ health_check_opt \in BOOLEAN
    /\ daemon \in BOOLEAN
    /\ pc = "idle"
    /\ list_outcome = "none"
    /\ camera_ids = NoIds
    /\ i = 0
    /\ fetched = <<>>
    /\ cameras = <<>>
    /\ j = 0
    /\ files = [id \in CameraIds |-> NoFiles]
    /\ probe_outcome = "none"
    /\ img_io = "none"
    /\ meta_io = "none"
    /\ wrote_img = FALSE
    /\ wrote_meta = "none"
    /\ reported = "none"
    /\ is_updated = FALSE
    /\ outcome_line = "none"
    /\ crash_at = 0
    /\ no_cameras_line = FALSE
    /\ last_print = "none"

\* main(): nothing happens without --health-check.
Start ==
    /\ pc = "idle"
    /\ pc' = IF health_check_opt THEN "list" ELSE "done"
    /\ UNCHANGED <<ctl, list_outcome, camera_ids, i, fetched, cameras, j, files,
                   inflight, no_cameras_line, last_print, crash_at>>

\* A list of cameras that outlives the call, as a module-level cache would.
DropLocals_KeepsCameras ==
    /\ camera_ids' = NoIds
    /\ cameras' = cameras
    /\ fetched' = <<>>
    /\ i' = 0
    /\ j' = 0

\* The locals of download_cameras_and_do_health_check are dropped.
DropLocals ==
    /\ camera_ids' = NoIds
    /\ cameras' = <<>>
    /\ fetched' = <<>>
    /\ i' = 0
    /\ j' = 0

\* download_cameras_and_do_health_check returns.
EndCycle ==
    /\ pc' = AfterCycle
    /\ DropLocals

\* An exception that nothing catches ends the process; crash_at keeps the
\* line that raised it.
Crash(line) ==
    /\ pc' = "crashed"
    /\ crash_at' = line
    /\ DropLocals

\* download_cameras_and_do_health_check up to the head of the fetch loop:
\* enumerate(None) raises TypeError, which nothing catches; an empty list
\* skips the loop and the health check.
ListIds ==
    /\ pc = "list"
    /\ \E outcome \in HttpOutcomes :
       \E ids \in (IF outcome = "ok" THEN Listings ELSE {<<>>}) :
        LET got == GetAllCameraIds(outcome, ids)
        IN  /\ list_outcome' = outcome
            /\ IF got.none
                 THEN /\ no_cameras_line' = TRUE
                      /\ last_print' = "no_cameras_downloaded"
                      /\ Crash(234)
               ELSE IF got.ids = <<>>
                 THEN /\ no_cameras_line' = TRUE
                      /\ last_print' = "no_cameras_passed"
                      /\ EndCycle
                      /\ UNCHANGED crash_at
                 ELSE /\ pc' = "fetch"
                      /\ no_cameras_line' = FALSE
                      /\ last_print' = "ids_discovered"
                      /\ camera_ids' = got
                      /\ cameras' = <<>>
                      /\ fetched' = <<>>
                      /\ i' = 0
                      /\ j' = 0
                      /\ UNCHANGED crash_at
    /\ ResetInflight
    /\ UNCHANGED <<ctl, files>>

\* One iteration of the fetch loop; after the last one, the health check
\* starts when any camera was appended.
FetchCamera ==
    /\ pc = "fetch"
    /\ i < Len(camera_ids.ids)
    /\ \E outcome \in HttpOutcomes :
       \E rec \in (IF outcome = "ok" THEN Records(i + 1, camera_ids.ids[i + 1]) ELSE {NoCamera}) :
        LET p == i + 1
            camera == GetCamera(outcome, rec)
            appended == IF Truthy(camera) THEN AppendCamera(cameras, camera) ELSE cameras
        IN  IF p < Len(camera_ids.ids)
              THEN /\ pc' = "fetch"
                   /\ fetched' = Append(fetched, IF camera.none THEN "absent" ELSE "present")
                   /\ cameras' = appended
                   /\ i' = p
                   /\ UNCHANGED <<camera_ids, j, last_print>>
            ELSE IF appended # <<>>
              THEN /\ pc' = "probe"
                   /\ fetched' = Append(fetched, IF camera.none THEN "absent" ELSE "present")
                   /\ cameras' = appended
                   /\ i' = p
                   /\ j' = 1
                   /\ last_print' = "found_cameras"
                   /\ UNCHANGED camera_ids
              ELSE /\ last_print' = "no_cameras_passed"
                   /\ EndCycle
    /\ UNCHANGED <<ctl, list_outcome, files, inflight, no_cameras_line, crash_at>>

\* RtspBackendClient.health_check up to the frame read: camera['rtspUrl'] is
\* read outside the try block; an exception of the capture is caught.
Probe ==
    /\ pc = "probe"
    /\ LET camera == cameras[j]
       IN  IF ~Has(camera, "rtspUrl")
           THEN /\ Crash(142)
                /\ UNCHANGED inflight
           ELSE \E outcome \in ProbeOutcomes :
                /\ probe_outcome' = outcome
                /\ pc' = AfterProbe(outcome)
                /\ UNCHANGED <<img_io, meta_io, wrote_img, wrote_meta, reported, is_updated,
                               outcome_line, camera_ids, i, fetched, cameras, j, crash_at>>
    /\ UNCHANGED <<ctl, list_outcome, files, no_cameras_line, last_print>>

\* The artifact writes of RtspBackendClient.health_check.  img_io and
\* meta_io record what the calls did ("none": the call was not reached).
Persist ==
    /\ pc = "persist"
    /\ \E imgio \in ImwriteOutcomes, metaio \in OpenOutcomes :
        LET camera == cameras[j]
            id == camera.cameraId
            r == PersistResult(files[id], camera, probe_outcome = "frame", imgio, metaio)
        IN  /\ imgio = r.imgio \/ (r.imgio = "none" /\ imgio = "ok")
            /\ metaio = r.metaio \/ (r.metaio = "none" /\ metaio = "ok")
            /\ files' = [files EXCEPT ![id] = r.f]
            /\ img_io' = r.imgio
            /\ meta_io' = r.metaio
            /\ wrote_img' = r.img
            /\ wrote_meta' = r.meta
            /\ pc' = AfterPersist(r.exc)
    /\ UNCHANGED <<ctl, list_outcome, camera_ids, i, fetched, cameras, j,
                   probe_outcome, reported, is_updated, outcome_line,
                   no_cameras_line, last_print, crash_at>>

\* update_camera(updated_camera): the PUT and its answer.
Report ==
    /\ pc = "report"
    /\ \E outcome \in HttpOutcomes :
        /\ reported' = UpdatedStatus(cameras[j], probe_outcome = "frame")
        /\ is_updated' = UpdateCameraOk(outcome)
    /\ pc' = "log"
    /\ UNCHANGED <<ctl, list_outcome, camera_ids, i, fetched, cameras, j, files,
                   probe_outcome, img_io, meta_io, wrote_img, wrote_meta, outcome_line,
                   no_cameras_line, last_print, crash_at>>

\* The outcome line of health_check(cameras): it reads cameraId, rtspUrl and
\* status of the record outside any try.  The result of client.health_check
\* is not used after it.
LogOutcome ==
    /\ pc = "log"
    /\ LET camera == cameras[j]
       IN  IF ~(Has(camera, "cameraId") /\ Has(camera, "rtspUrl") /\ Has(camera, "status"))
           THEN /\ Crash(IF is_updated THEN 217 ELSE 221)
                /\ UNCHANGED inflight
           ELSE /\ pc' = "next"
                /\ ResetResult
                /\ outcome_line' = OutcomeLine(is_updated)
                /\ UNCHANGED <<camera_ids, i, fetched, cameras, j, crash_at>>
    /\ UNCHANGED <<ctl, list_outcome, files, no_cameras_line, last_print>>

\* A loop that probes a camera again after a failed outcome.
NextCamera_RetriesFailed ==
    /\ pc = "next"
    /\ outcome_line' = "none"
    /\ IF outcome_line = "failed"
         THEN /\ pc' = "probe"
              /\ UNCHANGED <<camera_ids, i, fetched, cameras, j>>
       ELSE IF j < Len(cameras)
         THEN /\ j' = j + 1
              /\ pc' = "probe"
              /\ UNCHANGED <<camera_ids, i, fetched, cameras>>
         ELSE EndCycle
    /\ UNCHANGED <<ctl, list_outcome, files, probe_outcome, img_io, meta_io, wrote_img,
                   wrote_meta, reported, is_updated, no_cameras_line, last_print, crash_at>>

\* The for loop of health_check(cameras) takes the next camera, or returns
\* after the last one.
NextCamera ==
    /\ pc = "next"
    /\ outcome_line' = "none"
    /\ IF j < Len(cameras)
         THEN /\ j' = j + 1
              /\ pc' = "probe"
              /\ UNCHANGED <<camera_ids, i, fetched, cameras>>
         ELSE EndCycle
    /\ UNCHANGED <<ctl, list_outcome, files, probe_outcome, img_io, meta_io, wrote_img,
                   wrote_meta, reported, is_updated, no_cameras_line, last_print, crash_at>>

\* sleep(sleep_timer) of the daemon loop.
Sleep ==
    /\ pc = "sleep"
    /\ pc' = "list"
    /\ UNCHANGED <<ctl, list_outcome, camera_ids, i, fetched, cameras, j, files,
                   inflight, no_cameras_line, last_print, crash_at>>

Next ==
    \/ Start
    \/ ListIds
    \/ FetchCamera
    \/ Probe
    \/ Persist
    \/ Report
    \/ LogOutcome
    \/ NextCamera
    \/ Sleep

Spec == Init /\ [][Next]_vars

\* ----------------------------------------------------------------- claims

\* The camera whose health check is in progress.
Current == cameras[j]

InHealthCheck == pc \in {"probe", "persist", "report", "log", "next"}

\* The health check of the current camera has returned to health_check(cameras).
Returned == pc = "log"

\* The record carries every key the OPEN branch reads after the frame.
CompleteForOpen(camera) ==
    /\ Has(camera, "cameraId")
    /\ HasLocation(camera)

\* The record carries every key the loop reads.
Complete(camera) == camera.missing = "none"

\* C1: a malformed or unreachable camera record never aborts the cycle: the
\* process only ever stops abnormally without a record being the cause, so
\* every id listed after such a record is still fetched and processed.
C1_RecordNeverAbortsCycle ==
    crash_at \notin {142, 217, 221}

\* C2: in daemon mode no inventory, probe or persistence failure brings the
\* loop to a terminal state or aborts the process, so Listing recurs forever.
C2_DaemonNeverStops ==
    (health_check_opt /\ daemon) => pc \notin {"crashed", "done"}

\* C3: when listing the ids fails, listIds yields an empty sequence and the
\* cycle completes as an empty cycle; nothing is raised.
C3_ListIdsFailsSoftly ==
    list_outcome \in {"nonok", "undecodable", "transport"}
        => (pc # "crashed" /\ crash_at # 234)

\* C4: an exception raised while connecting to or reading from the media
\* endpoint is mapped to UNCONNECTED: a metadata artifact with status
\* UNCONNECTED is written and UNCONNECTED is reported.
C4_ProbeExceptionIsUnconnected ==
    (Returned /\ probe_outcome = "raise")
        => (wrote_meta = "UNCONNECTED" /\ reported = "UNCONNECTED")

C6_NoFrameIsUnconnected ==
    (Returned /\ probe_outcome \in {"noframe", "raise"}
        /\ Complete(Current) /\ meta_io # "fail")
        => /\ ~wrote_img
           /\ files[Current.cameraId].meta = "UNCONNECTED"
           /\ reported = "UNCONNECTED"

\* What persisting one result into an empty directory leaves for its id.
LeftByOnePersist ==
    {<<FALSE, "none">>, <<TRUE, "OPEN">>, <<FALSE, "UNCONNECTED">>}

\* C7: persisting is last-write-wins: when a result is persisted, every write
\* succeeding, for a cameraId whose artifacts are those of one earlier result
\* (or none), the artifacts afterwards are exactly what persisting the latest result alone,
\* into an empty directory, would have left.
C7_LastWriteWins ==
    [][(pc = "persist" /\ pc' = "report" /\ img_io' # "false"
            /\ <<files[Current.cameraId].img, files[Current.cameraId].meta>> \in LeftByOnePersist)
        => files'[Current.cameraId]
             = PersistResult(NoFiles, Current, probe_outcome = "frame", img_io', meta_io').f]_vars

\* C8: a listed id whose fetch returns absent is skipped: only positions
\* whose fetch returned a record are in the list that is probed, persisted
\* and reported, their number is the number of cameras processed, and the
\* health check runs only after every listed id was fetched.
C8_AbsentIsSkipped ==
    /\ \A k \in 1..Len(cameras) :
        /\ ~cameras[k].none
        /\ cameras[k].pos \in 1..Len(fetched)
        /\ fetched[cameras[k].pos] = "present"
        /\ \A l \in 1..Len(cameras) : k < l => cameras[k].pos < cameras[l].pos
    /\ Len(cameras) = Cardinality({p \in 1..Len(fetched) : fetched[p] = "present"})
    /\ InHealthCheck => (j \in 1..Len(cameras) /\ Len(fetched) = Len(camera_ids.ids))
    /\ pc \in {"idle", "list", "fetch", "sleep", "done"} =>
        (probe_outcome = "none" /\ ~wrote_img /\ wrote_meta = "none" /\ reported = "none")

\* C8 witness: a camera listed after an absent one was probed and reported.
C8_Witness ==
    /\ Returned
    /\ reported # "none"
    /\ \E p \in 1..Len(fetched) : p < Current.pos /\ fetched[p] = "absent"

\* C9: every status written to a metadata artifact or sent in a report is
\* OPEN or UNCONNECTED, whatever status the fetched record carried.
C9_OnlyOpenOrUnconnected ==
    /\ \A id \in CameraIds : files[id].meta \in {"none", "empty", "OPEN", "UNCONNECTED"}
    /\ wrote_meta \in {"none", "empty", "OPEN", "UNCONNECTED"}
    /\ reported \in {"none", "OPEN", "UNCONNECTED"}

\* C9 witness: a record carrying NOT_FOUND was written and reported as
\* UNCONNECTED.
C9_Witness ==
    /\ Returned
    /\ Current.status = "NOT_FOUND"
    /\ wrote_meta = "UNCONNECTED"
    /\ files[Current.cameraId].meta = "UNCONNECTED"
    /\ reported = "UNCONNECTED"

\* C10: when listIds returns an empty sequence the cycle completes at once:
\* nothing is fetched, probed, written or reported, the no-cameras lines are
\* printed, and in daemon mode the loop sleeps and then lists again.
C10_EmptyListingCompletes ==
    [][/\ (pc = "list" /\ list_outcome' = "ok" /\ no_cameras_line')
            => /\ files' = files
               /\ fetched' = <<>> /\ cameras' = <<>>
               /\ probe_outcome' = "none" /\ ~wrote_img' /\ wrote_meta' = "none"
               /\ reported' = "none"
               /\ last_print' = "no_cameras_passed"
               /\ pc' = IF daemon THEN "sleep" ELSE "done"
       /\ pc = "sleep" => pc' = "list"]_vars

\* C10 witness: the daemon is about to list again after an empty cycle.
C10_Witness ==
    /\ daemon
    /\ pc = "list"
    /\ list_outcome = "ok"
    /\ no_cameras_line
    /\ last_print = "no_cameras_passed"

\* An artifact write of the current camera raised: cv2.imwrite, or the open
\* of the metadata file.
WriteRaised == img_io = "raise" \/ meta_io = "fail"

\* C11: an artifact write that raises for one camera is contained to that
\* camera: its outcome is logged as failed and the cycle goes on with the
\* cameras after it, so the process never stops abnormally with the
\* failed write of a camera in flight.
C11_WriteFailureIsContained ==
    WriteRaised => pc # "crashed"

\* Nothing of the camera in flight is recorded yet.
NothingInFlight ==
    /\ probe_outcome = "none"
    /\ img_io = "none"
    /\ meta_io = "none"
    /\ ~wrote_img
    /\ wrote_meta = "none"
    /\ reported = "none"
    /\ ~is_updated

\* C12: there is no retry within a cycle.  Every occurrence of an id in the
\* listing enters the cameras at most once; a probe only ever starts on the
\* next camera of the list, with nothing in flight; a persist starts only
\* when nothing was written for this camera, a report only when nothing was
\* reported for it, and after a report (a failed one yields a false value
\* and no exception) only the outcome line follows, then the next camera.
\* Nothing of a failure is kept when the cycle has ended, so the next
\* cycle of the daemon probes whatever it lists and fetches.
C12_NoRetryWithinCycle ==
    [][ /\ \A k \in 1..Len(cameras), l \in 1..Len(cameras) :
              k < l => cameras[k].pos < cameras[l].pos
        /\ pc' = "probe"
              => (pc \in {"fetch", "next"} /\ j' = j + 1 /\ NothingInFlight')
        /\ (pc = "probe" /\ pc' # "crashed")
              => (pc' \in {"persist", "log"} /\ j' = j /\ cameras' = cameras)
        /\ pc = "persist"
              => (/\ img_io = "none" /\ meta_io = "none" /\ reported = "none"
                  /\ pc' \in {"report", "log"} /\ j' = j /\ cameras' = cameras)
        /\ pc = "report"
              => (/\ reported = "none"
                  /\ pc' = "log" /\ j' = j /\ cameras' = cameras)
        /\ (pc = "log" /\ pc' # "crashed")
              => (pc' = "next" /\ j' = j /\ cameras' = cameras /\ NothingInFlight')
        /\ pc = "next"
              => \/ pc' = "probe" /\ cameras' = cameras
                 \/ pc' \in {"sleep", "done"} /\ j = Len(cameras)
        /\ pc \in {"sleep", "list"}
              => (NothingInFlight /\ outcome_line = "none" /\ cameras = <<>>)
      ]_vars

\* The daemon probes the only listed camera again in a later cycle: the
\* image left behind shows that an earlier persist of it failed at the
\* metadata file, and the probe of this cycle has raised.
C12_Witness ==
    /\ daemon
    /\ Returned
    /\ Len(camera_ids.ids) = 1
    /\ probe_outcome = "raise"
    /\ files[Current.cameraId].img
    /\ files[Current.cameraId].meta = "none"

C14_SingleShotReachesTerminal ==
    (health_check_opt /\ ~daemon /\ list_outcome = "ok") => pc # "crashed"

\* C15 as stated: the steps are interleaved per id, so while an id of the
\* listing still waits for its fetch, every present record fetched before
\* it has already been probed, persisted and reported.
C15_InterleavedPerId ==
    pc = "fetch" => \A k \in 1..Len(cameras) : k <= j

\* C15, amended: all listed ids are fetched before the first probe, and no
\* probe, persist or report happens while ids are being fetched; then, per
\* camera, the order is probe, persist, report: a persist follows a probe
\* that returned, a report follows a written metadata artifact and carries
\* its status, and the next probe starts with nothing in flight.
C15_FetchAllThenProbeEach ==
    /\ pc = "fetch" => (j = 0 /\ NothingInFlight)
    /\ InHealthCheck
          => (i = Len(camera_ids.ids) /\ Len(fetched) = Len(camera_ids.ids))
    /\ pc = "probe" => NothingInFlight
    /\ pc = "persist"
          => (/\ probe_outcome \in {"frame", "noframe"}
              /\ img_io = "none" /\ meta_io = "none" /\ wrote_meta = "none"
              /\ reported = "none")
    /\ (img_io # "none" \/ meta_io # "none" \/ wrote_meta # "none")
          => probe_outcome \in {"frame", "noframe"}
    /\ pc = "report"
          => (wrote_meta \in {"OPEN", "UNCONNECTED"} /\ reported = "none")
    /\ reported # "none" => wrote_meta = reported

\* The second camera of a cycle has been reported; both ids were fetched
\* before the first probe.
C15_Witness ==
    /\ Returned
    /\ j = 2
    /\ reported # "none"
    /\ Len(fetched) = 2

\* C16: camera records are not cached across the cycles of the daemon.
\* Between two cycles no id, no fetch result and no record is held; within
\* a cycle every record that is probed was returned by a fetch of this
\* cycle for an id at its position in this cycle's listing, so an id that
\* is no longer listed is not probed.
C16_NoRecordOutlivesItsCycle ==
    /\ pc \in {"idle", "list", "sleep", "done", "crashed"}
          => (/\ cameras = <<>> /\ fetched = <<>> /\ camera_ids = NoIds
              /\ i = 0 /\ j = 0)
    /\ \A k \in 1..Len(cameras) :
          /\ cameras[k].pos \in 1..i
          /\ fetched[cameras[k].pos] = "present"
          /\ cameras[k].cameraId = camera_ids.ids[cameras[k].pos]
    /\ InHealthCheck
          => (/\ j \in 1..Len(cameras)
              /\ \E p \in 1..Len(camera_ids.ids) : camera_ids.ids[p] = Current.cameraId)

\* A later cycle of the daemon lists c2 only: c1, whose artifacts an earlier
\* cycle wrote, is not among the cameras that are probed.
C16_Witness ==
    /\ daemon
    /\ pc = "probe"
    /\ camera_ids.ids = <<"c2">>
    /\ Len(cameras) = 1
    /\ files["c1"].meta \in {"OPEN", "UNCONNECTED"}

\* C17: persisting passes the fields of the record through unchanged.  A
\* persist that writes the metadata artifact leaves in it, next to the
\* resulting status, exactly the keys countryCode, countryName, city,
\* rtspUrl and cameraId, each with the value the fetched record holds
\* under that key; a file without a document holds none of them; and the
\* probe, the persist and the report leave the fetched records as they are.
C17_FieldsPassThrough ==
    [][ /\ (pc = "persist" /\ wrote_meta' \in {"OPEN", "UNCONNECTED"})
              => LET doc == files'[Current.cameraId].doc
                 IN  /\ {kv[1] : kv \in doc}
                           = {"countryCode", "countryName", "city", "rtspUrl", "cameraId"}
                     /\ \A kv \in doc : kv[2] = FieldValue(Current, kv[1])
                     /\ Cardinality(doc) = 5
                     /\ files'[Current.cameraId].meta = wrote_meta'
        /\ \A id \in CameraIds :
              files'[id].meta \in {"none", "empty"} => files'[id].doc = {}
        /\ (pc \in {"probe", "persist", "report"} /\ pc' # "crashed")
              => cameras' = cameras
      ]_vars

\* The health check of a camera has returned after its metadata artifact
\* was written with the fields of its record and its report was sent.
C17_Witness ==
    /\ Returned
    /\ wrote_meta = "OPEN"
    /\ reported = "OPEN"
    /\ \E kv \in files[Current.cameraId].doc :
          kv = <<"city", FieldValue(Current, "city")>>

\* C18: the persist precedes the report and gates it.  update_camera is
\* called only when the metadata artifact of the camera was written in this
\* health check, and the status it sends is the status in that artifact;
\* when the write of the metadata artifact fails, or is never reached
\* because the image write raised, no report is sent.
C18_PersistGatesReport ==
    /\ pc = "report"
          => (/\ meta_io = "ok"
              /\ wrote_meta \in {"OPEN", "UNCONNECTED"}
              /\ files[Current.cameraId].meta = wrote_meta)
    /\ reported # "none"
          => (/\ meta_io = "ok"
              /\ wrote_meta = reported
              /\ Returned => files[Current.cameraId].meta = reported)
    /\ (meta_io \in {"none", "fail"} \/ img_io = "raise" \/ wrote_meta \in {"none", "empty"})
          => (reported = "none" /\ ~is_updated)

\* The image of the camera was written, the open of its metadata file
\* raised, and the health check has returned without a report.
C18_Witness ==
    /\ Returned
    /\ img_io = "ok"
    /\ meta_io = "fail"
    /\ reported = "none"

\* C19: whenever the metadata artifact of a cameraId holds status OPEN, an
\* image artifact of the same cameraId exists: on the OPEN path the image
\* is written and read back before the metadata is, and no image is ever
\* removed.
C19_OpenMetadataHasImage ==
    [][ /\ \A id \in CameraIds : files[id].meta = "OPEN" => files[id].img
        /\ \A id \in CameraIds : files'[id].meta = "OPEN" => files'[id].img
        /\ \A id \in CameraIds : files[id].img => files'[id].img
      ]_vars

\* The image of a camera was written and its metadata artifact then
\* recorded OPEN.
C19_Witness ==
    /\ Returned
    /\ img_io = "ok"
    /\ wrote_img
    /\ wrote_meta = "OPEN"
    /\ files[Current.cameraId].meta = "OPEN"
    /\ files[Current.cameraId].img

\* C20: every camera that was probed gets exactly one outcome line in its
\* cycle, completed when its report returned a success response and failed
\* otherwise: once client.health_check has returned for a camera, the only
\* thing that follows is that line.
C20_EveryProbedCameraGetsOutcomeLine ==
    [][ Returned => (pc' = "next" /\ outcome_line' = OutcomeLine(is_updated)) ]_vars

====
